---- MODULE Spec2Model ----
(***************************************************************************)
(* The durable (Bolt) transport of the hub and the per-subscriber pump.    *)
(*                                                                         *)
(*   transport : Dispatch / persist / cleanup / AddSubscriber /            *)
(*               dispatchFromHistory / Close                               *)
(*   subscriber: NewSubscriber / start / outChan / nextUpdate /            *)
(*               CanDispatch / IsAuthorized / IsSubscribed / Dispatch      *)
(*                                                                         *)
(* Every goroutine is a process with a position; a step is the code        *)
(* between two points where another goroutine can interfere (a mutex       *)
(* acquisition, a storage transaction, a channel rendezvous).              *)
(***************************************************************************)
EXTENDS Integers, Sequences, FiniteSets, TLC

(***************************************************************************)
(* Bounds of the model.                                                    *)
(***************************************************************************)
\* number of Dispatch (Write) calls issued by the publishers
MaxWrites == 2
\* number of storage transactions that may fail
MaxFailures == 1
\* the retention cap ("size" DSN parameter) when retention is enabled
RetentionSize == 1

\* cleanup_frequency is a float in [0,1]; the model counts it in hundredths
\* (100 stands for 1.0).  0.3 is the default.
DefaultCleanupFrequency == 30

Writers == {"w1", "w2"}
Closers == {"c1", "c2"}
Subs == {"s1", "s2"}

\* rand.Float64() in hundredths: one draw below and one above the default
Draws == {10, 60}

\* the (size, cleanup_frequency) pairs a DSN may carry
Configs == {<<0, DefaultCleanupFrequency>>, <<RetentionSize, 0>>,
            <<RetentionSize, DefaultCleanupFrequency>>, <<RetentionSize, 100>>}

(***************************************************************************)
(* Updates.  IDs are strings; "" is the empty ID.                          *)
(***************************************************************************)
\* (topics, targets) of the updates the publishers send
Kinds == { [Topics |-> <<"foo">>, Targets |-> {}],
           [Topics |-> <<"bar">>, Targets |-> {"b"}] }

\* the nil *Update
NilUpdate == [ID |-> "", Topics |-> <<>>, Targets |-> {}]

\* ID of the n-th update handed to Dispatch (publisher supplied, unique)
UpdateID(n) == ToString(10 + n)
\* ID of the n-th update a former process left in the database
OldID(n) == ToString(n)
\* an ID no update ever carries
UnknownID == "999"

\* the Last-Event-ID values a subscriber may present
LastEventIDs == {"", UpdateID(1), UnknownID}

\* json.Marshal(*update) / json.Unmarshal(v, &update)
Marshal(u) == <<"id", u.ID, "topics", u.Topics, "targets", u.Targets>>
Unmarshal(v) == [ID |-> v[2], Topics |-> v[4], Targets |-> v[6]]

\* key = 8-byte big-endian sequence prefix || update ID
Key(seq, id) == <<seq, id>>
KeySeq(k) == k[1]
KeyID(k) == k[2]

(***************************************************************************)
(* State.                                                                  *)
(***************************************************************************)
VARIABLES
  \* BoltTransport
  size,               \* t.size
  cleanupFrequency,   \* t.cleanupFrequency, in hundredths
  done,               \* t.done is closed
  dbOpen,             \* t.db is open
  mutex,              \* holder of t.Mutex, or "none"
  bucketExists,       \* the bucket has been created
  bucket,             \* the bucket: entries [key, value] in key order
  sequence,           \* the bucket's sequence counter (NextSequence)
  lastSeq,            \* t.lastSeq
  subscribers,        \* t.subscribers
  \* Dispatch calls
  wpc,                \* position of each publisher goroutine
  wupd,               \* the update it is dispatching
  wpending,           \* subscribers the range loop has not visited yet
  wresult,            \* what its last call returned
  \* Close calls
  cpc,
  panicked,           \* a goroutine panicked (close of closed channel)
  \* AddSubscriber calls
  spc,                \* position of the goroutine attaching s
  sresult,
  toSeq,              \* the watermark it loaded
  snap,               \* what the read transaction's cursor has yet to visit
  \* Subscriber
  lastEventID,
  pump,               \* "none", "running", "exited"
  historyIn,          \* HistorySrc.In: "nil", "open", "closed"
  historyBuf,         \* HistorySrc.buffer
  liveBuf,            \* LiveSrc.buffer
  matchCache,
  clientDisconnect,   \* ClientDisconnect is closed
  serverDisconnect,   \* ServerDisconnect is closed
  Out,                \* what the consumer received on s.Out, in order
  \* the environment of a run
  env,                \* the goroutines that exist, the Dispatch calls they
                      \* issue (number and kinds), the Last-Event-IDs each
                      \* subscriber may present, whether storage
                      \* transactions may fail, and the subscribers whose
                      \* client may go away
  \* bookkeeping for the properties
  ncalls,             \* Dispatch calls issued so far
  failures,           \* failed storage transactions so far
  preloaded,          \* entries the database held when it was opened
  committed,          \* all committed updates, in commit order
  closeReturned,      \* some Close call has completed its shutdown
  atClose,            \* t.subscribers when Close ran
  attachLen,          \* Len(committed) when s was attached
  kAtAttach,          \* sequence of the lastEventID entry when s was attached
  handed,             \* sequence prefixes the replay handed to History.In
  goneAtCall          \* attached subscribers whose disconnect had fired when
                      \* the Dispatch call in progress was issued

tvars == <<size, cleanupFrequency, done, dbOpen, mutex, bucketExists, bucket,
           sequence, lastSeq, subscribers>>
wvars == <<wpc, wupd, wpending, wresult>>
cvars == <<cpc, panicked>>
avars == <<spc, sresult, toSeq, snap>>
svars == <<lastEventID, pump, historyIn, historyBuf, liveBuf, matchCache,
           clientDisconnect, serverDisconnect, Out>>
gvars == <<env, ncalls, failures, preloaded, committed, closeReturned, atClose,
           attachLen, kAtAttach, handed, goneAtCall>>
vars == <<tvars, wvars, cvars, avars, svars, gvars>>

(***************************************************************************)
(* Subscriber: filters and output selection.                               *)
(***************************************************************************)
\* the arguments NewSubscriber receives for each subscriber
SubscriberConfig(s) ==
  IF s = "s1"
  THEN [AllTargets |-> FALSE, Targets |-> {"a"},
        RawTopics |-> <<"foo">>, TemplateTopics |-> <<>>]
  ELSE [AllTargets |-> TRUE, Targets |-> {},
        RawTopics |-> <<>>, TemplateTopics |-> <<"b{x}">>]

\* tt.Match(ut) != nil
TemplateMatch(tt, ut) == tt = "b{x}" /\ ut \in {"bar", "baz"}

IsAuthorized(s, u) ==
  \/ SubscriberConfig(s).AllTargets
  \/ Cardinality(u.Targets) = 0
  \/ \E t \in SubscriberConfig(s).Targets : t \in u.Targets

SeqRange(q) == {q[i] : i \in DOMAIN q}

\* the topic loop of IsSubscribed from topic i on, with the cache as it is then:
\* [result, cache]
RECURSIVE IsSubscribedFrom(_, _, _, _)
IsSubscribedFrom(s, topics, i, cache) ==
  IF i > Len(topics) THEN [result |-> FALSE, cache |-> cache]
  ELSE LET ut == topics[i] IN
       IF ut \in DOMAIN cache
       THEN IF cache[ut] THEN [result |-> TRUE, cache |-> cache]
            ELSE IsSubscribedFrom(s, topics, i + 1, cache)
       ELSE IF \E rt \in SeqRange(SubscriberConfig(s).RawTopics) : ut = rt
            THEN [result |-> TRUE, cache |-> (ut :> TRUE) @@ cache]
            ELSE IF \E tt \in SeqRange(SubscriberConfig(s).TemplateTopics) :
                       TemplateMatch(tt, ut)
            THEN [result |-> TRUE, cache |-> (ut :> TRUE) @@ cache]
            ELSE IsSubscribedFrom(s, topics, i + 1, (ut :> FALSE) @@ cache)

\* IsSubscribed that looks at the first topic of the update only
IsSubscribed_FirstTopicOnly(s, u, cache) ==
  IsSubscribedFrom(s, SubSeq(u.Topics, 1, 1), 1, cache)

IsSubscribed(s, u, cache) == IsSubscribedFrom(s, u.Topics, 1, cache)

\* CanDispatch: [result, cache]; IsSubscribed runs only for an authorized update
CanDispatch(s, u, cache) ==
  IF ~IsAuthorized(s, u) THEN [result |-> FALSE, cache |-> cache]
  ELSE IsSubscribed(s, u, cache)

\* outChan() returns s.Out (TRUE) or nil (FALSE)
outChan(s) == Len(liveBuf[s]) > 0 \/ Len(historyBuf[s]) > 0

nextUpdate(s) ==
  IF historyIn[s] # "nil" \/ Len(historyBuf[s]) > 0
  THEN IF Len(historyBuf[s]) > 0 THEN historyBuf[s][1] ELSE NilUpdate
  ELSE IF Len(liveBuf[s]) > 0 THEN liveBuf[s][1] ELSE NilUpdate

(***************************************************************************)
(* Storage.                                                                *)
(***************************************************************************)
\* the cursor walk of cleanup: delete from the first key, stop at the first key
\* whose prefix is above removeUntil
RECURSIVE DeleteUntil(_, _)
DeleteUntil(b, removeUntil) ==
  IF b = <<>> \/ KeySeq(b[1].key) > removeUntil THEN b
  ELSE DeleteUntil(Tail(b), removeUntil)

\* cleanup that keeps one entry too many
cleanup_KeepsOneMore(b, lastID, draw) ==
  IF \/ size = 0
     \/ cleanupFrequency = 0
     \/ size >= lastID
     \/ (cleanupFrequency # 100 /\ draw < cleanupFrequency)
  THEN b
  ELSE DeleteUntil(b, lastID - size - 1)

\* cleanup that draws even when the frequency is 1
cleanup_AlwaysDraws(b, lastID, draw) ==
  IF \/ size = 0
     \/ cleanupFrequency = 0
     \/ size >= lastID
     \/ draw < cleanupFrequency
  THEN b
  ELSE DeleteUntil(b, lastID - size)

\* cleanup that is also skipped when the draw equals the frequency
cleanup_SkipsOnEqualDraw(b, lastID, draw) ==
  IF \/ size = 0
     \/ cleanupFrequency = 0
     \/ size >= lastID
     \/ (cleanupFrequency # 100 /\ draw <= cleanupFrequency)
  THEN b
  ELSE DeleteUntil(b, lastID - size)

\* cleanup(bucket, lastID) with the value rand.Float64() returns if it is called
cleanup(b, lastID, draw) ==
  IF \/ size = 0
     \/ cleanupFrequency = 0
     \/ size >= lastID
     \/ (cleanupFrequency # 100 /\ draw < cleanupFrequency)
  THEN b
  ELSE DeleteUntil(b, lastID - size)

\* bucket.Put: insert in key order (a key is ordered by its sequence prefix)
Put(b, key, value) ==
  LET before == SelectSeq(b, LAMBDA e : KeySeq(e.key) < KeySeq(key))
      after == SelectSeq(b, LAMBDA e : KeySeq(e.key) > KeySeq(key))
  IN before \o <<[key |-> key, value |-> value]>> \o after

\* the entries a former process left behind
OldUpdate(i) == [ID |-> OldID(i), Topics |-> <<"foo">>, Targets |-> {}]
OldBucket(n) ==
  [i \in 1..n |-> [key |-> Key(i, OldID(i)), value |-> Marshal(OldUpdate(i))]]

(***************************************************************************)
(* Initial state: NewBoltTransport on a database that is fresh or was      *)
(* filled by a former process; no subscriber exists yet.                   *)
(***************************************************************************)
\* number of entries a former process may have left in the database
MaxPreloaded == 1

\* the state NewBoltTransport leaves, for a run with the goroutines of e on a
\* database holding pre entries
InitWith(e, cfgs, pre) ==
  /\ env = e
  /\ \E cfg \in cfgs : size = cfg[1] /\ cleanupFrequency = cfg[2]
  /\ preloaded = pre
  /\ done = FALSE
  /\ dbOpen = TRUE
  /\ mutex = "none"
  /\ bucketExists = (preloaded > 0)
  /\ bucket = OldBucket(preloaded)
  /\ sequence = preloaded
  /\ lastSeq = 0
  /\ subscribers = {}
  /\ wpc = [w \in Writers |-> "idle"]
  /\ wupd = [w \in Writers |-> NilUpdate]
  /\ wpending = [w \in Writers |-> {}]
  /\ wresult = [w \in Writers |-> "none"]
  /\ cpc = [c \in Closers |-> "idle"]
  /\ panicked = FALSE
  /\ spc = [s \in Subs |-> "none"]
  /\ sresult = [s \in Subs |-> "none"]
  /\ toSeq = [s \in Subs |-> 0]
  /\ snap = [s \in Subs |-> <<>>]
  /\ lastEventID = [s \in Subs |-> ""]
  /\ pump = [s \in Subs |-> "none"]
  /\ historyIn = [s \in Subs |-> "nil"]
  /\ historyBuf = [s \in Subs |-> <<>>]
  /\ liveBuf = [s \in Subs |-> <<>>]
  /\ matchCache = [s \in Subs |-> [ut \in {} |-> FALSE]]
  /\ clientDisconnect = [s \in Subs |-> FALSE]
  /\ serverDisconnect = [s \in Subs |-> FALSE]
  /\ Out = [s \in Subs |-> <<>>]
  /\ ncalls = 0
  /\ failures = 0
  /\ committed = [i \in 1..pre |-> OldUpdate(i)]
  /\ closeReturned = FALSE
  /\ atClose = {}
  /\ attachLen = [s \in Subs |-> 0]
  /\ kAtAttach = [s \in Subs |-> 0]
  /\ handed = [s \in Subs |-> <<>>]
  /\ goneAtCall = [w \in Writers |-> {}]

\* one publisher, one subscriber (either of the two), one Close call; a fresh
\* database and a storage that does not fail
Init ==
  \E s \in Subs :
    InitWith([writers |-> {"w1"}, closers |-> {"c1"}, subs |-> {s},
              calls |-> MaxWrites, kinds |-> Kinds,
              ids |-> [x \in Subs |-> LastEventIDs], faulty |-> FALSE,
              leavers |-> Subs],
             Configs, 0)

(***************************************************************************)
(* Subscriber.Dispatch: the handoff of u to one of the inputs of s.  The   *)
(* inputs are unbuffered: the send completes when the pump, in its select, *)
(* receives the value, and the pump then filters and buffers it.  With     *)
(* several cases ready, select takes any of them.  ok is the value         *)
(* Dispatch returns.                                                       *)
(***************************************************************************)
\* a handoff that the pump accepts only while its buffers are empty, as a
\* pump that waited for its consumer would
SubscriberDispatch_WaitsForConsumer(s, u, fromHistory, ok) ==
  IF ok
  THEN /\ pump[s] = "running"
       /\ ~serverDisconnect[s] /\ ~clientDisconnect[s]
       /\ fromHistory => historyIn[s] = "open"
       /\ historyBuf[s] = <<>> /\ liveBuf[s] = <<>>
       /\ LET r == CanDispatch(s, u, matchCache[s]) IN
          /\ matchCache' = [matchCache EXCEPT ![s] = r.cache]
          /\ IF fromHistory
             THEN /\ historyBuf' = [historyBuf EXCEPT ![s] =
                                      IF r.result THEN Append(@, u) ELSE @]
                  /\ UNCHANGED liveBuf
             ELSE /\ liveBuf' = [liveBuf EXCEPT ![s] =
                                   IF r.result THEN Append(@, u) ELSE @]
                  /\ UNCHANGED historyBuf
  ELSE /\ serverDisconnect[s] \/ clientDisconnect[s]
       /\ UNCHANGED <<historyBuf, liveBuf, matchCache>>

\* Subscriber.Dispatch whose pump buffers the update without asking CanDispatch
SubscriberDispatch_BuffersRejected(s, u, fromHistory, ok) ==
  IF ok
  THEN /\ pump[s] = "running"
       /\ ~serverDisconnect[s] /\ ~clientDisconnect[s]
       /\ fromHistory => historyIn[s] = "open"
       /\ LET r == CanDispatch(s, u, matchCache[s]) IN
          /\ matchCache' = [matchCache EXCEPT ![s] = r.cache]
          /\ IF fromHistory
             THEN /\ historyBuf' = [historyBuf EXCEPT ![s] = Append(@, u)]
                  /\ UNCHANGED liveBuf
             ELSE /\ liveBuf' = [liveBuf EXCEPT ![s] = Append(@, u)]
                  /\ UNCHANGED historyBuf
  ELSE /\ serverDisconnect[s] \/ clientDisconnect[s]
       /\ UNCHANGED <<historyBuf, liveBuf, matchCache>>

SubscriberDispatch(s, u, fromHistory, ok) ==
  IF ok
  THEN /\ pump[s] = "running"
       /\ ~serverDisconnect[s] /\ ~clientDisconnect[s]
       /\ fromHistory => historyIn[s] = "open"
       /\ LET r == CanDispatch(s, u, matchCache[s]) IN
          /\ matchCache' = [matchCache EXCEPT ![s] = r.cache]
          /\ IF fromHistory
             THEN /\ historyBuf' = [historyBuf EXCEPT ![s] =
                                      IF r.result THEN Append(@, u) ELSE @]
                  /\ UNCHANGED liveBuf
             ELSE /\ liveBuf' = [liveBuf EXCEPT ![s] =
                                   IF r.result THEN Append(@, u) ELSE @]
                  /\ UNCHANGED historyBuf
  ELSE /\ serverDisconnect[s] \/ clientDisconnect[s]
       /\ UNCHANGED <<historyBuf, liveBuf, matchCache>>

(***************************************************************************)
(* BoltTransport.Dispatch.                                                 *)
(***************************************************************************)
\* where the write transaction of persist may fail
FailPoints == {"none", "CreateBucketIfNotExists", "NextSequence", "Delete", "Put"}

\* db.Update returns an error
persistErr(failAt) == ~dbOpen \/ failAt # "none"

\* persist that derives the sequence number from t.lastSeq instead of the
\* bucket's counter
persist_SequenceFromLastSeq(updateID, updateJSON, draw, failAt) ==
  IF ~dbOpen
  THEN UNCHANGED <<bucketExists, bucket, sequence, lastSeq>>
  ELSE LET seq == lastSeq + 1 IN
       /\ failAt = "Delete" => cleanup(bucket, seq, draw) # bucket
       /\ lastSeq' = IF failAt \in {"CreateBucketIfNotExists", "NextSequence"}
                     THEN lastSeq ELSE seq
       /\ IF failAt = "none"
          THEN /\ bucketExists' = TRUE
               /\ sequence' = seq
               /\ bucket' = Put(cleanup(bucket, seq, draw),
                                Key(seq, updateID), updateJSON)
          ELSE UNCHANGED <<bucketExists, bucket, sequence>>

\* persist that keeps the effects of a transaction that failed after the
\* sequence number was taken
persist_NoRollback(updateID, updateJSON, draw, failAt) ==
  IF ~dbOpen
  THEN UNCHANGED <<bucketExists, bucket, sequence, lastSeq>>
  ELSE LET seq == sequence + 1 IN
       /\ failAt = "Delete" => cleanup(bucket, seq, draw) # bucket
       /\ lastSeq' = IF failAt \in {"CreateBucketIfNotExists", "NextSequence"}
                     THEN lastSeq ELSE seq
       /\ IF failAt = "none"
          THEN /\ bucketExists' = TRUE
               /\ sequence' = seq
               /\ bucket' = Put(cleanup(bucket, seq, draw),
                                Key(seq, updateID), updateJSON)
          ELSE IF failAt \in {"Delete", "Put"}
          THEN /\ bucketExists' = TRUE
               /\ sequence' = seq
               /\ bucket' = cleanup(bucket, seq, draw)
          ELSE UNCHANGED <<bucketExists, bucket, sequence>>

\* persist: one read-write transaction.  A failed transaction is rolled back
\* (bucket and sequence counter), but t.lastSeq is no part of it.
persist(updateID, updateJSON, draw, failAt) ==
  IF ~dbOpen
  THEN UNCHANGED <<bucketExists, bucket, sequence, lastSeq>>
  ELSE LET seq == sequence + 1 IN
       \* bucket.Delete is only called when cleanup has something to delete
       /\ failAt = "Delete" => cleanup(bucket, seq, draw) # bucket
       /\ lastSeq' = IF failAt \in {"CreateBucketIfNotExists", "NextSequence"}
                     THEN lastSeq ELSE seq
       /\ IF failAt = "none"
          THEN /\ bucketExists' = TRUE
               /\ sequence' = seq
               /\ bucket' = Put(cleanup(bucket, seq, draw),
                                Key(seq, updateID), updateJSON)
          ELSE UNCHANGED <<bucketExists, bucket, sequence>>

\* Dispatch without its closed check
DispatchCheck_NoClosedCheck(w, k) ==
  /\ wpc[w] = "idle"
  /\ ncalls < env.calls
  /\ ncalls' = ncalls + 1
  /\ wpc' = [wpc EXCEPT ![w] = "lock"]
  /\ wupd' = [wupd EXCEPT ![w] =
                [ID |-> UpdateID(ncalls + 1), Topics |-> k.Topics,
                 Targets |-> k.Targets]]
  /\ wresult' = [wresult EXCEPT ![w] = "none"]
  /\ goneAtCall' = [goneAtCall EXCEPT ![w] =
                      {s \in subscribers : serverDisconnect[s] \/ clientDisconnect[s]}]
  /\ UNCHANGED <<tvars, wpending, cvars, avars, svars, env, failures, preloaded,
                 committed, closeReturned, atClose, attachLen, kAtAttach, handed>>

\* hub.dispatch hands update number ncalls+1 to Dispatch: the closed check
DispatchCheck(w, k) ==
  /\ wpc[w] = "idle"
  /\ ncalls < env.calls
  /\ ncalls' = ncalls + 1
  /\ IF done
     THEN /\ wresult' = [wresult EXCEPT ![w] = "ErrClosedTransport"]
          /\ UNCHANGED <<wpc, wupd, goneAtCall>>
     ELSE /\ wpc' = [wpc EXCEPT ![w] = "lock"]
          /\ wupd' = [wupd EXCEPT ![w] =
                        [ID |-> UpdateID(ncalls + 1), Topics |-> k.Topics,
                         Targets |-> k.Targets]]
          /\ wresult' = [wresult EXCEPT ![w] = "none"]
          /\ goneAtCall' = [goneAtCall EXCEPT ![w] =
                {s \in subscribers : serverDisconnect[s] \/ clientDisconnect[s]}]
  /\ UNCHANGED <<tvars, wpending, cvars, avars, svars, env, failures, preloaded,
                 committed, closeReturned, atClose, attachLen, kAtAttach, handed>>

\* t.Lock(); persist; on error return it.  Without subscribers the range loop
\* is empty and the call returns nil.  The deferred Unlock runs on return.
DispatchPersist(w) ==
  /\ wpc[w] = "lock"
  /\ mutex = "none"
  /\ \E draw \in Draws, failAt \in FailPoints :
       /\ failAt # "none" => dbOpen /\ env.faulty /\ failures < MaxFailures
       /\ persist(wupd[w].ID, Marshal(wupd[w]), draw, failAt)
       /\ failures' = IF failAt # "none" THEN failures + 1 ELSE failures
       /\ IF persistErr(failAt)
          THEN /\ wpc' = [wpc EXCEPT ![w] = "idle"]
               /\ wresult' = [wresult EXCEPT ![w] = "storage error"]
               /\ wupd' = [wupd EXCEPT ![w] = NilUpdate]
               /\ goneAtCall' = [goneAtCall EXCEPT ![w] = {}]
               /\ UNCHANGED <<mutex, wpending, committed>>
          ELSE /\ committed' = Append(committed, wupd[w])
               /\ wpending' = [wpending EXCEPT ![w] = subscribers]
               /\ IF subscribers = {}
                  THEN /\ wpc' = [wpc EXCEPT ![w] = "idle"]
                       /\ wresult' = [wresult EXCEPT ![w] = "nil"]
                       /\ wupd' = [wupd EXCEPT ![w] = NilUpdate]
                       /\ goneAtCall' = [goneAtCall EXCEPT ![w] = {}]
                       /\ UNCHANGED mutex
                  ELSE /\ mutex' = w
                       /\ wpc' = [wpc EXCEPT ![w] = "fanout"]
                       /\ UNCHANGED <<wresult, wupd, goneAtCall>>
  /\ UNCHANGED <<size, cleanupFrequency, done, dbOpen, subscribers, cvars,
                 avars, svars, env, ncalls, preloaded, closeReturned, atClose,
                 attachLen, kAtAttach, handed>>

\* a range loop that keeps the subscribers that refuse the handoff
DispatchFanout_KeepsRefusing(w, s) ==
  /\ wpc[w] = "fanout"
  /\ s \in wpending[w]
  /\ \E ok \in BOOLEAN : SubscriberDispatch(s, wupd[w], FALSE, ok)
  /\ wpending' = [wpending EXCEPT ![w] = @ \ {s}]
  /\ IF wpending[w] = {s}
     THEN /\ mutex' = "none"
          /\ wpc' = [wpc EXCEPT ![w] = "idle"]
          /\ wresult' = [wresult EXCEPT ![w] = "nil"]
          /\ wupd' = [wupd EXCEPT ![w] = NilUpdate]
          /\ goneAtCall' = [goneAtCall EXCEPT ![w] = {}]
     ELSE UNCHANGED <<mutex, wpc, wresult, wupd, goneAtCall>>
  /\ UNCHANGED <<size, cleanupFrequency, done, dbOpen, bucketExists, bucket,
                 sequence, lastSeq, subscribers, cvars, avars, lastEventID,
                 pump, historyIn, clientDisconnect, serverDisconnect, Out, env,
                 ncalls, failures, preloaded, committed, closeReturned, atClose,
                 attachLen, kAtAttach, handed>>

\* one iteration of the range loop over t.subscribers: a refused handoff
\* deletes the subscriber; after the last iteration the call returns nil
DispatchFanout(w, s) ==
  /\ wpc[w] = "fanout"
  /\ s \in wpending[w]
  /\ \E ok \in BOOLEAN :
       /\ SubscriberDispatch(s, wupd[w], FALSE, ok)
       /\ subscribers' = IF ok THEN subscribers ELSE subscribers \ {s}
  /\ wpending' = [wpending EXCEPT ![w] = @ \ {s}]
  /\ IF wpending[w] = {s}
     THEN /\ mutex' = "none"
          /\ wpc' = [wpc EXCEPT ![w] = "idle"]
          /\ wresult' = [wresult EXCEPT ![w] = "nil"]
          /\ wupd' = [wupd EXCEPT ![w] = NilUpdate]
          /\ goneAtCall' = [goneAtCall EXCEPT ![w] = {}]
     ELSE UNCHANGED <<mutex, wpc, wresult, wupd, goneAtCall>>
  /\ UNCHANGED <<size, cleanupFrequency, done, dbOpen, bucketExists, bucket,
                 sequence, lastSeq, cvars, avars, lastEventID, pump, historyIn,
                 clientDisconnect, serverDisconnect, Out, env, ncalls, failures,
                 preloaded, committed, closeReturned, atClose, attachLen,
                 kAtAttach, handed>>

(***************************************************************************)
(* NewSubscriber and BoltTransport.AddSubscriber.                          *)
(***************************************************************************)
\* NewSubscriber that always makes the history input
NewSubscriber_AlwaysHistory(s, id) ==
  /\ lastEventID' = [lastEventID EXCEPT ![s] = id]
  /\ historyIn' = [historyIn EXCEPT ![s] = "open"]
  /\ pump' = [pump EXCEPT ![s] = "running"]

\* NewSubscriber: the history input exists iff a Last-Event-ID was given; the
\* pump goroutine is started
NewSubscriber(s, id) ==
  /\ lastEventID' = [lastEventID EXCEPT ![s] = id]
  /\ historyIn' = [historyIn EXCEPT ![s] = IF id # "" THEN "open" ELSE "nil"]
  /\ pump' = [pump EXCEPT ![s] = "running"]

\* sequence prefix of the entry of b whose ID is id, 0 if there is none
SeqOfID(b, id) ==
  IF \E i \in DOMAIN b : KeyID(b[i].key) = id
  THEN KeySeq(b[CHOOSE i \in DOMAIN b : KeyID(b[i].key) = id].key)
  ELSE 0

\* the subscribe handler creates s and calls AddSubscriber: the closed check
AddSubscriberCheck(s, id) ==
  /\ spc[s] = "none"
  /\ NewSubscriber(s, id)
  /\ IF done
     THEN /\ spc' = [spc EXCEPT ![s] = "returned"]
          /\ sresult' = [sresult EXCEPT ![s] = "ErrClosedTransport"]
     ELSE /\ spc' = [spc EXCEPT ![s] = "lock"]
          /\ UNCHANGED sresult
  /\ UNCHANGED <<tvars, wvars, cvars, toSeq, snap, historyBuf, liveBuf,
                 matchCache, clientDisconnect, serverDisconnect, Out, env,
                 ncalls, failures, preloaded, committed, closeReturned, atClose,
                 attachLen, kAtAttach, handed, goneAtCall>>

\* t.Lock(); t.subscribers[s] = struct{}{}; t.Unlock(); without a history
\* input the call returns
AddSubscriberLock(s) ==
  /\ spc[s] = "lock"
  /\ mutex = "none"
  /\ subscribers' = subscribers \cup {s}
  /\ kAtAttach' = [kAtAttach EXCEPT ![s] = SeqOfID(bucket, lastEventID[s])]
  /\ attachLen' = [attachLen EXCEPT ![s] = Len(committed)]
  /\ IF historyIn[s] = "nil"
     THEN /\ spc' = [spc EXCEPT ![s] = "returned"]
          /\ sresult' = [sresult EXCEPT ![s] = "nil"]
     ELSE /\ spc' = [spc EXCEPT ![s] = "load"]
          /\ UNCHANGED sresult
  /\ UNCHANGED <<size, cleanupFrequency, done, dbOpen, mutex, bucketExists,
                 bucket, sequence, lastSeq, wvars, cvars, toSeq, snap,
                 svars, env, ncalls, failures, preloaded, committed,
                 closeReturned, atClose, handed, goneAtCall>>

\* toSeq := t.lastSeq.Load()
AddSubscriberLoad(s) ==
  /\ spc[s] = "load"
  /\ toSeq' = [toSeq EXCEPT ![s] = lastSeq]
  /\ spc' = [spc EXCEPT ![s] = "view"]
  /\ UNCHANGED <<tvars, wvars, cvars, sresult, snap, svars, gvars>>

(***************************************************************************)
(* BoltTransport.dispatchFromHistory.                                      *)
(***************************************************************************)
\* a cursor loop that visits the whole bucket when no entry has the ID id
AfterID_DumpsWhenUnknown(b, id) ==
  IF \E i \in DOMAIN b : KeyID(b[i].key) = id
  THEN SubSeq(b, (CHOOSE i \in DOMAIN b : KeyID(b[i].key) = id) + 1, Len(b))
  ELSE b

\* the skipping part of the cursor loop: what follows the first entry whose
\* ID is id, nothing if there is none
RECURSIVE AfterID(_, _)
AfterID(b, id) ==
  IF b = <<>> THEN <<>>
  ELSE IF KeyID(b[1].key) = id THEN Tail(b)
  ELSE AfterID(Tail(b), id)

\* db.View starts the read transaction: on a closed database it returns an
\* error and the function (with its deferred close) never runs; with no
\* bucket, or nothing after the resume point, the function returns at once
\* and the deferred close(s.History.In) runs
dispatchFromHistoryView(s) ==
  /\ spc[s] = "view"
  /\ IF ~dbOpen
     THEN /\ spc' = [spc EXCEPT ![s] = "returned"]
          /\ sresult' = [sresult EXCEPT ![s] = "nil"]
          /\ UNCHANGED <<snap, historyIn>>
     ELSE IF ~bucketExists \/ AfterID(bucket, lastEventID[s]) = <<>>
     THEN /\ spc' = [spc EXCEPT ![s] = "returned"]
          /\ sresult' = [sresult EXCEPT ![s] = "nil"]
          /\ historyIn' = [historyIn EXCEPT ![s] = "closed"]
          /\ UNCHANGED snap
     ELSE /\ spc' = [spc EXCEPT ![s] = "replay"]
          /\ snap' = [snap EXCEPT ![s] = AfterID(bucket, lastEventID[s])]
          /\ UNCHANGED <<sresult, historyIn>>
  /\ UNCHANGED <<tvars, wvars, cvars, toSeq, lastEventID, pump, historyBuf,
                 liveBuf, matchCache, clientDisconnect, serverDisconnect, Out,
                 gvars>>

\* a loop that tests the watermark first and stops at the entry that reaches it
dispatchFromHistoryNext_StopsAtWatermark(s) ==
  /\ spc[s] = "replay"
  /\ LET k == snap[s][1].key
         update == Unmarshal(snap[s][1].value)
         stop == toSeq[s] > 0 /\ KeySeq(k) >= toSeq[s]
     IN \E ok \in BOOLEAN :
          /\ IF stop
             THEN ok /\ UNCHANGED <<historyBuf, liveBuf, matchCache>>
             ELSE SubscriberDispatch(s, update, TRUE, ok)
          /\ handed' = [handed EXCEPT ![s] =
                          IF ok /\ ~stop THEN Append(@, KeySeq(k)) ELSE @]
          /\ IF ~ok \/ stop \/ Tail(snap[s]) = <<>>
             THEN /\ spc' = [spc EXCEPT ![s] = "returned"]
                  /\ sresult' = [sresult EXCEPT ![s] = "nil"]
                  /\ historyIn' = [historyIn EXCEPT ![s] = "closed"]
                  /\ snap' = [snap EXCEPT ![s] = <<>>]
             ELSE /\ snap' = [snap EXCEPT ![s] = Tail(@)]
                  /\ UNCHANGED <<spc, sresult, historyIn>>
  /\ UNCHANGED <<tvars, wvars, cvars, toSeq, lastEventID, pump,
                 clientDisconnect, serverDisconnect, Out, env, ncalls, failures,
                 preloaded, committed, closeReturned, atClose, attachLen,
                 kAtAttach, goneAtCall>>

\* one iteration of the loop after the resume point: decode the entry, hand
\* it over, then test the watermark; the function returns when the handoff is
\* refused, the watermark is reached or the cursor is exhausted, and the
\* deferred close(s.History.In) runs
dispatchFromHistoryNext(s) ==
  /\ spc[s] = "replay"
  /\ LET k == snap[s][1].key
         update == Unmarshal(snap[s][1].value)
     IN \E ok \in BOOLEAN :
          /\ SubscriberDispatch(s, update, TRUE, ok)
          /\ handed' = [handed EXCEPT ![s] =
                          IF ok THEN Append(@, KeySeq(k)) ELSE @]
          /\ IF \/ ~ok
                \/ (toSeq[s] > 0 /\ KeySeq(k) >= toSeq[s])
                \/ Tail(snap[s]) = <<>>
             THEN /\ spc' = [spc EXCEPT ![s] = "returned"]
                  /\ sresult' = [sresult EXCEPT ![s] = "nil"]
                  /\ historyIn' = [historyIn EXCEPT ![s] = "closed"]
                  /\ snap' = [snap EXCEPT ![s] = <<>>]
             ELSE /\ snap' = [snap EXCEPT ![s] = Tail(@)]
                  /\ UNCHANGED <<spc, sresult, historyIn>>
  /\ UNCHANGED <<tvars, wvars, cvars, toSeq, lastEventID, pump,
                 clientDisconnect, serverDisconnect, Out, env, ncalls, failures,
                 preloaded, committed, closeReturned, atClose, attachLen,
                 kAtAttach, goneAtCall>>

(***************************************************************************)
(* BoltTransport.Close.                                                    *)
(***************************************************************************)
\* subscriber.Disconnect(): the server-side disconnect of s
Disconnect(sd, s) == [sd EXCEPT ![s] = TRUE]

\* the closed check before the lock
CloseCheck(c) ==
  /\ cpc[c] = "idle"
  /\ cpc' = [cpc EXCEPT ![c] = IF done THEN "returned" ELSE "lock"]
  /\ UNCHANGED <<tvars, wvars, panicked, avars, svars, gvars>>

\* Close that forgets the subscribers
CloseLocked_NoDisconnect(c) ==
  /\ cpc[c] = "lock"
  /\ mutex = "none"
  /\ cpc' = [cpc EXCEPT ![c] = "returned"]
  /\ IF done
     THEN /\ panicked' = TRUE
          /\ UNCHANGED <<done, dbOpen, closeReturned, atClose>>
     ELSE /\ done' = TRUE
          /\ dbOpen' = FALSE
          /\ closeReturned' = TRUE
          /\ atClose' = subscribers
          /\ UNCHANGED panicked
  /\ UNCHANGED <<size, cleanupFrequency, mutex, bucketExists, bucket, sequence,
                 lastSeq, subscribers, wvars, avars, svars, env, ncalls,
                 failures, preloaded, committed, attachLen, kAtAttach, handed, goneAtCall>>

\* t.Lock(); disconnect and delete every subscriber; close(t.done);
\* t.db.Close().  Closing t.done a second time panics.
CloseLocked(c) ==
  /\ cpc[c] = "lock"
  /\ mutex = "none"
  /\ serverDisconnect' = [s \in Subs |->
        IF s \in subscribers THEN Disconnect(serverDisconnect, s)[s]
        ELSE serverDisconnect[s]]
  /\ subscribers' = {}
  /\ cpc' = [cpc EXCEPT ![c] = "returned"]
  /\ IF done
     THEN /\ panicked' = TRUE
          /\ UNCHANGED <<done, dbOpen, closeReturned, atClose>>
     ELSE /\ done' = TRUE
          /\ dbOpen' = FALSE
          /\ closeReturned' = TRUE
          /\ atClose' = subscribers
          /\ UNCHANGED panicked
  /\ UNCHANGED <<size, cleanupFrequency, mutex, bucketExists, bucket, sequence,
                 lastSeq, wvars, avars, lastEventID, pump, historyIn,
                 historyBuf, liveBuf, matchCache, clientDisconnect, Out, env,
                 ncalls, failures, preloaded, committed, attachLen, kAtAttach,
                 handed, goneAtCall>>

(***************************************************************************)
(* Subscriber.start: the pump.  The receive cases are the ok branch of     *)
(* SubscriberDispatch.                                                     *)
(***************************************************************************)
\* case <-s.ClientDisconnect / case <-s.ServerDisconnect: return
PumpExit(s) ==
  /\ pump[s] = "running"
  /\ clientDisconnect[s] \/ serverDisconnect[s]
  /\ pump' = [pump EXCEPT ![s] = "exited"]
  /\ UNCHANGED <<tvars, wvars, cvars, avars, lastEventID, historyIn,
                 historyBuf, liveBuf, matchCache, clientDisconnect,
                 serverDisconnect, Out, gvars>>

\* case u, ok := <-s.HistorySrc.In with ok false: s.HistorySrc.In = nil
PumpHistoryClosed(s) ==
  /\ pump[s] = "running"
  /\ historyIn[s] = "closed"
  /\ historyIn' = [historyIn EXCEPT ![s] = "nil"]
  /\ UNCHANGED <<tvars, wvars, cvars, avars, lastEventID, pump, historyBuf,
                 liveBuf, matchCache, clientDisconnect, serverDisconnect, Out,
                 gvars>>

\* case s.outChan() <- s.nextUpdate(): the consumer receives the value, then
\* the pump pops the history buffer if it is not empty, else the live buffer.
\* Out records the value sent, the buffer popped and the element popped.
PumpSend(s) ==
  /\ pump[s] = "running"
  /\ outChan(s)
  /\ LET fromHist == Len(historyBuf[s]) > 0 IN
     /\ Out' = [Out EXCEPT ![s] = Append(@,
                  [u |-> nextUpdate(s),
                   via |-> IF fromHist THEN "history" ELSE "live",
                   popped |-> IF fromHist THEN historyBuf[s][1]
                              ELSE liveBuf[s][1]])]
     /\ IF fromHist
        THEN /\ historyBuf' = [historyBuf EXCEPT ![s] = Tail(@)]
             /\ UNCHANGED liveBuf
        ELSE /\ liveBuf' = [liveBuf EXCEPT ![s] = Tail(@)]
             /\ UNCHANGED historyBuf
  /\ UNCHANGED <<tvars, wvars, cvars, avars, lastEventID, pump, historyIn,
                 matchCache, clientDisconnect, serverDisconnect, gvars>>

\* the client goes away: the subscribe handler closes ClientDisconnect
ClientDisconnects(s) ==
  /\ pump[s] # "none"
  /\ ~clientDisconnect[s]
  /\ clientDisconnect' = [clientDisconnect EXCEPT ![s] = TRUE]
  /\ UNCHANGED <<tvars, wvars, cvars, avars, lastEventID, pump, historyIn,
                 historyBuf, liveBuf, matchCache, serverDisconnect, Out, gvars>>

(***************************************************************************)
(* Specification.  A panic ends the process.                               *)
(***************************************************************************)
Next ==
  \/ \E w \in env.writers, k \in env.kinds : ~panicked /\ DispatchCheck(w, k)
  \/ \E w \in env.writers : ~panicked /\ DispatchPersist(w)
  \/ \E w \in env.writers, s \in Subs : ~panicked /\ DispatchFanout(w, s)
  \/ \E s \in env.subs : \E id \in env.ids[s] :
       ~panicked /\ AddSubscriberCheck(s, id)
  \/ \E s \in env.subs : ~panicked /\ AddSubscriberLock(s)
  \/ \E s \in env.subs : ~panicked /\ AddSubscriberLoad(s)
  \/ \E s \in env.subs : ~panicked /\ dispatchFromHistoryView(s)
  \/ \E s \in env.subs : ~panicked /\ dispatchFromHistoryNext(s)
  \/ \E c \in env.closers : ~panicked /\ CloseCheck(c)
  \/ \E c \in env.closers : ~panicked /\ CloseLocked(c)
  \/ \E s \in env.subs : ~panicked /\ PumpExit(s)
  \/ \E s \in env.subs : ~panicked /\ PumpHistoryClosed(s)
  \/ \E s \in env.subs : ~panicked /\ PumpSend(s)
  \/ \E s \in env.subs \cap env.leavers : ~panicked /\ ClientDisconnects(s)

Spec == Init /\ [][Next]_vars

(***************************************************************************)
(* Fairness: a goroutine that can run does run, and a select whose         *)
(* disconnect case stays ready takes it in the end (select picks among the *)
(* ready cases at random).                                                 *)
(***************************************************************************)
Fairness == \A s \in Subs : WF_vars(~panicked /\ PumpExit(s))

FairSpec == Spec /\ Fairness

\* both subscribers, s1 resuming after the first update and s2 without a
\* Last-Event-ID, whose client may go away; one publisher of public "foo"
\* updates, one Close call; no retention
InitTwo ==
  InitWith([writers |-> {"w1"}, closers |-> {"c1"}, subs |-> Subs,
            calls |-> MaxWrites, kinds |-> {[Topics |-> <<"foo">>, Targets |-> {}]},
            ids |-> [x \in Subs |-> IF x = "s1" THEN {UpdateID(1)} ELSE {""}],
            faulty |-> FALSE, leavers |-> {"s2"}],
           {<<0, DefaultCleanupFrequency>>}, 0)

TwoSpec == InitTwo /\ [][Next]_vars /\ Fairness

\* a Dispatch call that can take the mutex takes it (sync.Mutex), and a
\* handoff that a pump can receive, or that a closed disconnect channel
\* refuses, completes
DispatchFairness ==
  \A w \in Writers :
    WF_vars(~panicked /\ (DispatchPersist(w) \/ \E s \in Subs : DispatchFanout(w, s)))

\* the two subscribers of InitTwo with a publisher that is scheduled; nothing
\* makes the consumers read
LiveSpec == InitTwo /\ [][Next]_vars /\ DispatchFairness

\* as Init, on a storage whose write transactions may fail
InitFaulty ==
  \E s \in Subs :
    InitWith([writers |-> {"w1"}, closers |-> {"c1"}, subs |-> {s},
              calls |-> MaxWrites, kinds |-> Kinds,
              ids |-> [x \in Subs |-> LastEventIDs], faulty |-> TRUE,
              leavers |-> Subs],
             Configs, 0)

FaultySpec == InitFaulty /\ [][Next]_vars

\* both subscribers, one resuming after the first update, on a storage whose
\* write transactions may fail; one publisher of public "foo" updates, one
\* Close call; no retention
InitTwoFaulty ==
  InitWith([writers |-> {"w1"}, closers |-> {"c1"}, subs |-> Subs,
            calls |-> MaxWrites, kinds |-> {[Topics |-> <<"foo">>, Targets |-> {}]},
            ids |-> [x \in Subs |-> IF x = "s1" THEN {UpdateID(1)} ELSE {""}],
            faulty |-> TRUE,
              leavers |-> Subs],
           {<<0, DefaultCleanupFrequency>>}, 0)

TwoFaultySpec == InitTwoFaulty /\ [][Next]_vars

\* two publishers of public "foo" updates calling Dispatch concurrently, on a
\* storage whose write transactions may fail and that is fresh or was filled
\* by a former process; s1 resumes after the first update, one Close call
InitWriters ==
  \E pre \in {0, MaxPreloaded} :
    InitWith([writers |-> Writers, closers |-> {"c1"}, subs |-> {"s1"},
              calls |-> MaxWrites,
              kinds |-> {[Topics |-> <<"foo">>, Targets |-> {}]},
              ids |-> [x \in Subs |-> {UpdateID(1)}], faulty |-> TRUE,
              leavers |-> Subs],
             {<<0, DefaultCleanupFrequency>>, <<RetentionSize, 100>>}, pre)

WritersSpec == InitWriters /\ [][Next]_vars

\* two goroutines calling Close concurrently; one publisher of public "foo"
\* updates, s1 resuming after the first update; no retention
InitClosers ==
  InitWith([writers |-> {"w1"}, closers |-> Closers, subs |-> {"s1"},
            calls |-> MaxWrites,
            kinds |-> {[Topics |-> <<"foo">>, Targets |-> {}]},
            ids |-> [x \in Subs |-> {UpdateID(1)}], faulty |-> FALSE,
              leavers |-> Subs],
           {<<0, DefaultCleanupFrequency>>}, 0)

ClosersSpec == InitClosers /\ [][Next]_vars

\* public updates carrying one or two topics
TopicKinds == { [Topics |-> <<"qux", "foo">>, Targets |-> {}],
                [Topics |-> <<"bar", "foo">>, Targets |-> {}],
                [Topics |-> <<"qux", "baz">>, Targets |-> {}],
                [Topics |-> <<"foo", "bar">>, Targets |-> {}],
                [Topics |-> <<"qux">>, Targets |-> {}] }

\* the ones a publisher sends
PublishedKinds == { k \in TopicKinds : Len(k.Topics) = 2 /\ k.Topics[1] # "foo" }

\* as Init, with a publisher of the updates of PublishedKinds and a subscriber
\* that resumes after the first update; no retention
InitTopics ==
  \E s \in Subs :
    InitWith([writers |-> {"w1"}, closers |-> {"c1"}, subs |-> {s},
              calls |-> MaxWrites, kinds |-> PublishedKinds,
              ids |-> [x \in Subs |-> {UpdateID(1)}],
              faulty |-> FALSE, leavers |-> Subs],
             {<<0, DefaultCleanupFrequency>>}, 0)

TopicsSpec == InitTopics /\ [][Next]_vars

(***************************************************************************)
(* Properties.                                                             *)
(***************************************************************************)
\* a Dispatch call starts in this step
DispatchCalled == ncalls' # ncalls
\* AddSubscriber is called for s in this step
AddSubscriberCalled(s) == spc[s] = "none" /\ spc'[s] # "none"

\* C1: once Close has returned, a Dispatch call returns ErrClosedTransport and
\* an AddSubscriber call returns ErrClosedTransport, at once, and the call
\* changes neither the storage nor the attached set nor any subscriber's
\* buffers or output.
C1_ClosedTransportRejects ==
  [][closeReturned =>
       /\ DispatchCalled =>
            /\ \E w \in Writers :
                 wresult' = [wresult EXCEPT ![w] = "ErrClosedTransport"]
            /\ UNCHANGED <<wpc, bucket, sequence, lastSeq, subscribers,
                           historyBuf, liveBuf, Out>>
       /\ \A s \in Subs : AddSubscriberCalled(s) =>
            /\ spc'[s] = "returned"
            /\ sresult'[s] = "ErrClosedTransport"
            /\ UNCHANGED <<bucket, sequence, lastSeq, subscribers, historyBuf,
                           liveBuf, Out>>]_vars

\* both calls have been rejected after Close returned
C1_Witness ==
  /\ closeReturned
  /\ \E w \in Writers : wresult[w] = "ErrClosedTransport"
  /\ \E s \in Subs : sresult[s] = "ErrClosedTransport"

\* C2: when Close has returned, every subscriber that was attached when it
\* ran has its ServerDisconnect closed and is attached no more, and the pump
\* of each of them eventually exits.
C2_CloseDisconnectsAll ==
  /\ [](closeReturned =>
          \A s \in atClose : serverDisconnect[s] /\ s \notin subscribers)
  /\ (closeReturned ~> \A s \in atClose : pump[s] = "exited")

\* Close has returned with both subscribers attached, and the pump of each,
\* whose client never left, has exited
C2_Witness ==
  /\ closeReturned
  /\ atClose = Subs
  /\ \A s \in atClose : ~clientDisconnect[s] /\ pump[s] = "exited"

\* s has neither disconnect signal fired
Connected(s) == ~clientDisconnect[s] /\ ~serverDisconnect[s]

\* C3: when lastEventID names the log entry with sequence k (kAtAttach) and w
\* is the watermark loaded (toSeq), the replay hands to the history input
\* only entries with a sequence above k and at most w, in increasing order;
\* and when it has returned for a subscriber that stayed connected, on a log
\* without retention, it has handed over exactly the sequences k+1..w.
C3_ReplayWindow ==
  \A s \in Subs : kAtAttach[s] > 0 =>
    /\ \A i \in DOMAIN handed[s] :
         kAtAttach[s] < handed[s][i] /\ handed[s][i] <= toSeq[s]
    /\ \A i, j \in DOMAIN handed[s] : i < j => handed[s][i] < handed[s][j]
    /\ (spc[s] = "returned" /\ Connected(s) /\ size = 0) =>
         handed[s] = [i \in 1..(toSeq[s] - kAtAttach[s]) |-> kAtAttach[s] + i]

\* position in commit order of the update whose ID is id (its sequence
\* number, on a storage that never failed)
CommitIndex(id) == CHOOSE i \in DOMAIN committed : committed[i].ID = id

\* the updates proper among what s.Out delivered to the consumer of s
Delivered(s) == SelectSeq(Out[s], LAMBDA d : d.u # NilUpdate)

\* C4: on the output of a subscriber, no update taken from the history buffer
\* comes after one taken from the live buffer, and the updates come in
\* strictly increasing log-sequence order.
C4_HistoryBeforeLiveInOrder ==
  \A s \in Subs : \A i, j \in DOMAIN Delivered(s) : i < j =>
    /\ ~(Delivered(s)[i].via = "live" /\ Delivered(s)[j].via = "history")
    /\ CommitIndex(Delivered(s)[i].u.ID) < CommitIndex(Delivered(s)[j].u.ID)

\* the handoff of committed update number i to the live input of s is over
FannedOut(s, i) ==
  ~\E w \in Writers : wupd[w].ID = committed[i].ID /\ s \in wpending[w]

\* C5: for a subscriber attached with a Last-Event-ID and still connected,
\* every update committed after the attach that passes its filter and has
\* been handed to its live input is in its live buffer or was delivered on
\* Out: no accepted live update is lost.
C5_NoLiveUpdateLost ==
  \A s \in Subs :
    (lastEventID[s] # "" /\ s \in subscribers /\ Connected(s)) =>
      \A i \in (attachLen[s] + 1)..Len(committed) :
        (CanDispatch(s, committed[i], matchCache[s]).result /\ FannedOut(s, i)) =>
          \/ \E j \in DOMAIN liveBuf[s] : liveBuf[s][j].ID = committed[i].ID
          \/ \E j \in DOMAIN Out[s] : Out[s][j].u.ID = committed[i].ID

\* u passes the filter of s, whatever the cache holds
Passes(s, u) ==
  IsAuthorized(s, u) /\ IsSubscribed(s, u, [ut \in {} |-> FALSE]).result

\* C6: every value delivered on Out is an update that the subscriber is
\* authorized for and subscribed to, and so is every update in historyBuf
\* and liveBuf.
C6_OnlyFilteredUpdates ==
  \A s \in Subs :
    /\ \A j \in DOMAIN Out[s] : Out[s][j].u # NilUpdate /\ Passes(s, Out[s][j].u)
    /\ \A j \in DOMAIN historyBuf[s] : Passes(s, historyBuf[s][j])
    /\ \A j \in DOMAIN liveBuf[s] : Passes(s, liveBuf[s][j])

\* C7: no update is delivered twice on the output of a subscriber, and the
\* replay hands over no update that was committed after the subscriber was
\* attached.
C7_AtMostOnce ==
  \A s \in Subs :
    /\ \A i, j \in DOMAIN Delivered(s) :
         i < j => Delivered(s)[i].u.ID # Delivered(s)[j].u.ID
    /\ \A i \in DOMAIN handed[s] : handed[s][i] <= attachLen[s]

\* the bucket entry of committed update number j on a storage that never failed
Entry(j) == [key |-> Key(j, committed[j].ID), value |-> Marshal(committed[j])]
\* the n most recent ones
LastEntries(n) == [i \in 1..n |-> Entry(Len(committed) - n + i)]

\* C8: on a fresh database with size = S > 0 and cleanup_frequency = 1, after
\* N > S successful writes the bucket holds exactly the S most recent entries.
C8_RetentionExact ==
  (preloaded = 0 /\ size > 0 /\ cleanupFrequency = 100 /\ Len(committed) > size)
    => bucket = LastEntries(size)

\* more writes than size have succeeded under cleanup_frequency = 1
C8_Witness ==
  /\ preloaded = 0 /\ size > 0 /\ cleanupFrequency = 100
  /\ Len(committed) > size
  /\ Len(bucket) = size

\* C9 as stated: with retention enabled and no Dispatch call in progress the
\* bucket holds at most size entries, the most recent ones.
C9_AlwaysWithinSize ==
  (size > 0 /\ cleanupFrequency > 0 /\ \A w \in Writers : wpc[w] = "idle") =>
    /\ Len(bucket) <= size
    /\ bucket = LastEntries(Len(bucket))

\* C9 as amended: with retention enabled the bucket always holds the most
\* recent entries; a write leaves at most size entries when its cleanup runs
\* and one entry more than before when its draw skips the cleanup, which
\* cleanup_frequency = 1 never does.
C9_TrimOrAppend ==
  /\ []((size > 0 /\ cleanupFrequency > 0) => bucket = LastEntries(Len(bucket)))
  /\ [][(size > 0 /\ cleanupFrequency > 0 /\ Len(committed') = Len(committed) + 1)
          => \/ Len(bucket') <= size
             \/ /\ cleanupFrequency # 100
                /\ bucket' = Append(bucket,
                     [key |-> Key(Len(committed'), committed'[Len(committed')].ID),
                      value |-> Marshal(committed'[Len(committed')])])]_vars

\* a draw let the cleanup run under the default frequency
C9_Witness ==
  /\ size > 0 /\ cleanupFrequency = DefaultCleanupFrequency
  /\ Len(committed) > size
  /\ Len(bucket) = size

\* C10: a subscriber created without a Last-Event-ID has no history input, no
\* replay runs for it, and whatever reaches its buffers and its output was
\* committed after it was attached.
C10_OnlyFutureUpdates ==
  \A s \in Subs : (pump[s] # "none" /\ lastEventID[s] = "") =>
    /\ historyIn[s] = "nil"
    /\ spc[s] \notin {"load", "view", "replay"}
    /\ handed[s] = <<>> /\ historyBuf[s] = <<>>
    /\ \A j \in DOMAIN liveBuf[s] : CommitIndex(liveBuf[s][j].ID) > attachLen[s]
    /\ \A j \in DOMAIN Out[s] :
         /\ Out[s][j].u # NilUpdate /\ Out[s][j].via = "live"
         /\ CommitIndex(Out[s][j].u.ID) > attachLen[s]

\* such a subscriber, attached after a first update, has received a later one
C10_Witness ==
  \E s \in Subs :
    /\ lastEventID[s] = "" /\ attachLen[s] >= 1
    /\ Len(Out[s]) >= 1

\* the replay of s runs its read transaction in this step
ViewRuns(s) == spc[s] = "view" /\ spc'[s] # "view" /\ dbOpen

\* C11: when the read transaction of a replay finds no entry whose ID is the
\* Last-Event-ID (it was never written, or cleanup removed it), the replay
\* returns without handing anything to the history input and closes it; a
\* subscriber resuming from an ID that no update carries never gets a
\* history update.
C11_UnknownResumePointReplaysNothing ==
  /\ [][\A s \in Subs :
          (ViewRuns(s) /\ SeqOfID(bucket, lastEventID[s]) = 0) =>
             /\ spc'[s] = "returned"
             /\ handed'[s] = <<>>
             /\ historyIn'[s] = "closed"]_vars
  /\ [](\A s \in Subs : lastEventID[s] = UnknownID =>
          /\ handed[s] = <<>> /\ historyBuf[s] = <<>>
          /\ \A j \in DOMAIN Out[s] : Out[s][j].via # "history")

\* a replay from the ID of an entry that cleanup had removed before the
\* subscriber was attached has returned, on a log that is not empty
C11_Witness ==
  \E s \in Subs :
    /\ lastEventID[s] = UpdateID(1) /\ attachLen[s] = MaxWrites
    /\ SeqOfID(bucket, UpdateID(1)) = 0 /\ bucket # <<>>
    /\ dbOpen /\ spc[s] = "returned" /\ sresult[s] = "nil"
    /\ handed[s] = <<>> /\ historyIn[s] # "open"

\* the storage transaction of the Dispatch call of w fails in this step
TxFails(w) ==
  wpc[w] = "lock" /\ wpc'[w] # "lock" /\ (failures' # failures \/ ~dbOpen)

\* the IDs of the updates in a sequence of updates
IDsOf(us) == {us[i].ID : i \in DOMAIN us}

\* C12: when the storage transaction of a Dispatch call fails, the call
\* returns the error at once, the bucket and its sequence counter are what
\* they were before the call, the attached set and every subscriber's buffers
\* are unchanged; an update that was not committed never reaches a buffer or
\* an output.
C12_FailedWriteIsAtomic ==
  /\ [][\A w \in Writers : TxFails(w) =>
          /\ wresult'[w] = "storage error" /\ wpc'[w] = "idle"
          /\ UNCHANGED <<bucketExists, bucket, sequence, subscribers,
                         historyBuf, liveBuf, Out>>]_vars
  /\ [](\A s \in Subs :
          /\ IDsOf(liveBuf[s]) \cup IDsOf(historyBuf[s]) \subseteq IDsOf(committed)
          /\ \A j \in DOMAIN Out[s] :
               Out[s][j].u.ID \in IDsOf(committed) \cup {NilUpdate.ID})

\* a transaction failed on an open database that held an entry, with a
\* subscriber attached, and the call returned the error
C12_Witness ==
  /\ failures >= 1 /\ dbOpen
  /\ \E w \in Writers : wresult[w] = "storage error"
  /\ subscribers # {} /\ bucket # <<>>
  /\ Len(bucket) = Len(committed) /\ lastSeq > sequence

\* the Dispatch call of w returns in this step
Returns(w) == wpc[w] # "idle" /\ wpc'[w] = "idle"

\* a disconnect signal of s fires in this step and nothing else happens to s
SignalFires(s) ==
  /\ clientDisconnect'[s] # clientDisconnect[s]
  /\ serverDisconnect'[s] = serverDisconnect[s]

\* no step detaches a subscriber that is connected after it, and the firing
\* of a disconnect signal leaves the attached set as it is
OnlyDispatchDetaches ==
  /\ \A s \in subscribers : Connected(s)' => s \in subscribers'
  /\ \A s \in Subs : SignalFires(s) => subscribers' = subscribers

\* C13 as stated: the firing of a disconnect signal does not change the
\* attached set, and when a Dispatch call returns, no subscriber whose signal
\* had fired before the call is attached any more, while the subscribers
\* that are still connected stay attached.
C13_FirstDispatchDetaches ==
  [][/\ OnlyDispatchDetaches
     /\ \A w \in Writers :
          Returns(w) => goneAtCall[w] \cap subscribers' = {}]_vars

\* C13 as amended: the same for a Dispatch call that returns nil, that is,
\* whose storage transaction succeeded; a call that returns an error has not
\* visited the subscribers.
C13_FirstCommittedDispatchDetaches ==
  [][/\ OnlyDispatchDetaches
     /\ \A w \in Writers :
          Returns(w) =>
            /\ wresult'[w] = "nil" => goneAtCall[w] \cap subscribers' = {}
            /\ wresult'[w] # "nil" => subscribers' = subscribers]_vars

\* a Dispatch call has returned nil; s1, whose client had gone, is detached
\* and s2, still connected, is attached, and no Close has run
C13_Witness ==
  /\ \E w \in Writers : wresult[w] = "nil" /\ wpc[w] = "idle"
  /\ ~done /\ \A c \in Closers : cpc[c] = "idle"
  /\ sresult["s1"] = "nil" /\ clientDisconnect["s1"]
  /\ "s1" \notin subscribers
  /\ "s2" \in subscribers /\ Connected("s2")

\* C14: every Dispatch call returns in the end, whether or not the consumers
\* of the attached subscribers read their outputs and whether or not the
\* subscribers have disconnected: whenever a call is in progress, a moment
\* comes when none is (the publisher issues its calls one after the other).
C14_DispatchReturns ==
  (\E w \in Writers : wpc[w] # "idle") ~> (\A w \in Writers : wpc[w] = "idle")

\* all the Dispatch calls have returned nil although the consumer of s1 has
\* read nothing (its live buffer holds every update) and the client of s2
\* had gone
C14_Witness ==
  /\ ncalls = MaxWrites /\ \A w \in Writers : wpc[w] = "idle"
  /\ \E w \in Writers : wresult[w] = "nil"
  /\ ~done
  /\ Connected("s1") /\ Out["s1"] = <<>> /\ Len(liveBuf["s1"]) = MaxWrites
  /\ sresult["s2"] = "nil" /\ clientDisconnect["s2"] /\ "s2" \notin subscribers

\* a Dispatch call commits its update in this step
Commits == Len(committed') = Len(committed) + 1

\* C15: the n-th update committed since the database was created carries the
\* sequence number n (no gap, no reuse, whatever transactions failed in
\* between); the keys of the bucket are strictly increasing and each entry
\* holds the update committed under its sequence number; a commit adds
\* exactly one entry, whose prefix is greater than every prefix stored before.
C15_SequenceFollowsCommitOrder ==
  /\ [](/\ sequence = Len(committed)
        /\ \A i \in DOMAIN bucket :
             /\ KeySeq(bucket[i].key) \in 1..Len(committed)
             /\ bucket[i] = Entry(KeySeq(bucket[i].key))
        /\ \A i, j \in DOMAIN bucket :
             i < j => KeySeq(bucket[i].key) < KeySeq(bucket[j].key)
        /\ \A i, j \in DOMAIN committed :
             i # j => committed[i].ID # committed[j].ID)
  /\ [][Commits =>
          /\ sequence' = sequence + 1
          /\ bucket' # <<>>
          /\ KeySeq(bucket'[Len(bucket')].key) = sequence'
          /\ \A i \in 1..(Len(bucket') - 1) :
               \E j \in DOMAIN bucket : bucket[j] = bucket'[i]]_vars

\* both publishers have called Dispatch on a database that held entries: one
\* transaction failed after it had taken a sequence number, the other
\* committed
C15_Witness ==
  /\ preloaded > 0 /\ failures >= 1
  /\ wresult["w1"] = "nil" /\ wresult["w2"] = "storage error"
  /\ Len(committed) = preloaded + 1
  /\ lastSeq = sequence /\ KeySeq(bucket[Len(bucket)].key) = sequence

\* the sequence numbers in a bucket
SeqsOf(b) == {KeySeq(b[i].key) : i \in DOMAIN b}

\* C16: when the replay of a subscriber that stayed connected has returned on
\* an open transport, it has handed over every update that was committed
\* after the Last-Event-ID entry and before the subscriber was attached,
\* provided the update and the Last-Event-ID entry are still in the log.
C16_CommittedUpdateIsReplayed ==
  \A s \in Subs :
    (/\ spc[s] = "returned" /\ sresult[s] = "nil"
     /\ Connected(s) /\ ~done
     /\ kAtAttach[s] > 0 /\ kAtAttach[s] \in SeqsOf(bucket)) =>
       \A q \in (kAtAttach[s] + 1)..attachLen[s] :
         q \in SeqsOf(bucket) => \E i \in DOMAIN handed[s] : handed[s][i] = q

\* a replay has handed over the update committed last before the attach
C16_Witness ==
  \E s \in Subs :
    /\ spc[s] = "returned" /\ sresult[s] = "nil" /\ Connected(s) /\ ~done
    /\ kAtAttach[s] > 0 /\ attachLen[s] > kAtAttach[s]
    /\ \E i \in DOMAIN handed[s] : handed[s][i] = attachLen[s]

\* C17: whatever the number of Close calls and their interleaving, no call
\* closes t.done a second time (which would panic), and every call that has
\* returned leaves the transport closed, the storage released and no
\* subscriber of the shutdown connected.
C17_CloseIsIdempotent ==
  /\ ~panicked
  /\ \A c \in Closers : cpc[c] = "returned" =>
       /\ done /\ ~dbOpen
       /\ \A s \in atClose : serverDisconnect[s]

\* C18: every value the pump sends on Out is an update, never the nil
\* update, and the element the pump pops after the send is the element it
\* sent; in particular nothing is sent while the history input is open and
\* the history buffer is empty.
C18_SendsHeadAndPopsIt ==
  \A s \in Subs : \A j \in DOMAIN Out[s] :
    /\ Out[s][j].u # NilUpdate
    /\ Out[s][j].popped = Out[s][j].u

\* C19: on a storage that does not fail by itself, no Dispatch call returns
\* a storage error (a call that reaches the storage after the shutdown
\* returns ErrClosedTransport instead), and no subscriber is attached to a
\* transport that is closed.
C19_ShutdownWinsTheRace ==
  /\ \A w \in Writers : wresult[w] # "storage error"
  /\ done => subscribers = {}

\* C20: once AddSubscriber has returned nil for a subscriber created with a
\* Last-Event-ID, the replay has closed its history input, whichever way the
\* replay ended.
C20_ReplayClosesHistoryInput ==
  \A s \in Subs :
    (lastEventID[s] # "" /\ spc[s] = "returned" /\ sresult[s] = "nil")
      => historyIn[s] # "open"

\* C21: once a disconnect signal of a subscriber has fired, nothing more is
\* delivered on its Out, its buffers take no further update (and are not
\* drained), and every handoff to it is refused, which detaches it.
C21_DisconnectStopsThePump ==
  [][\A s \in Subs : ~Connected(s) =>
       /\ Out'[s] = Out[s]
       /\ historyBuf'[s] = historyBuf[s] /\ liveBuf'[s] = liveBuf[s]
       /\ \A w \in Writers :
            (s \in wpending[w] /\ s \notin wpending'[w]) => s \notin subscribers'
       /\ handed'[s] = handed[s]]_vars

\* C22: the handoff, by Dispatch, of an update that the filter of a connected
\* subscriber rejects succeeds: it leaves the subscriber attached, its two
\* buffers and its Out as they are, and the call returns nil; and no rejected
\* update is ever in a buffer of the subscriber or delivered on its Out.
C22_RejectedUpdateIsSilent ==
  [][/\ \A w \in Writers : \A s \in Subs :
          ( /\ wpc[w] = "fanout" /\ s \in wpending[w] /\ s \notin wpending'[w]
            /\ Connected(s) /\ ~Passes(s, wupd[w]) )
          => /\ s \in subscribers'
             /\ historyBuf'[s] = historyBuf[s] /\ liveBuf'[s] = liveBuf[s]
             /\ Out'[s] = Out[s]
             /\ wpc'[w] = "idle" => wresult'[w] = "nil"
     /\ \A s \in Subs : \A i \in DOMAIN committed' :
          ~Passes(s, committed'[i]) =>
             /\ \A j \in DOMAIN liveBuf'[s] : liveBuf'[s][j] # committed'[i]
             /\ \A j \in DOMAIN historyBuf'[s] : historyBuf'[s][j] # committed'[i]
             /\ \A j \in DOMAIN Out'[s] :
                  /\ Out'[s][j].u # committed'[i]
                  /\ Out'[s][j].popped # committed'[i]]_vars

\* a Dispatch call has returned nil for an update committed after a subscriber
\* was attached and that its filter rejects; the subscriber, still connected,
\* is attached, its buffers are empty and nothing came out of its Out
C22_Witness ==
  \E s \in Subs :
    /\ s \in subscribers /\ Connected(s)
    /\ Len(committed) = attachLen[s] + 1
    /\ ~Passes(s, committed[Len(committed)])
    /\ \A w \in Writers : wpc[w] = "idle"
    /\ \E w \in Writers : wresult[w] = "nil"
    /\ liveBuf[s] = <<>> /\ historyBuf[s] = <<>> /\ Out[s] = <<>>

\* topic ut equals one of the RawTopics of s or matches one of its
\* TemplateTopics
TopicMatches(s, ut) ==
  \/ \E rt \in SeqRange(SubscriberConfig(s).RawTopics) : ut = rt
  \/ \E tt \in SeqRange(SubscriberConfig(s).TemplateTopics) : TemplateMatch(tt, ut)

\* C23: whatever IsSubscribed calls the pump of a subscriber has made, every
\* entry of its match cache is the value of the uncached predicate for that
\* topic, and with that cache IsSubscribed answers true for an update iff one
\* of the topics of the update satisfies the predicate.
C23_MatchCacheAgreesWithPredicate ==
  \A s \in Subs :
    /\ \A ut \in DOMAIN matchCache[s] : matchCache[s][ut] = TopicMatches(s, ut)
    /\ \A u \in TopicKinds \cup Kinds :
         IsSubscribed(s, u, matchCache[s]).result
           = (\E i \in DOMAIN u.Topics : TopicMatches(s, u.Topics[i]))

\* the cache of a subscriber holds three topics or more, matching and not
\* matching ones, and two updates that came second-topic-first have been
\* accepted into its live buffer
C23_Witness ==
  \E s \in Subs :
    /\ Cardinality(DOMAIN matchCache[s]) >= 3
    /\ \E a, b \in DOMAIN matchCache[s] : matchCache[s][a] /\ ~matchCache[s][b]
    /\ Len(liveBuf[s]) >= 2
    /\ \A j \in DOMAIN liveBuf[s] :
         /\ Len(liveBuf[s][j].Topics) = 2
         /\ ~TopicMatches(s, liveBuf[s][j].Topics[1])

\* values rand.Float64() can return, in hundredths: those of Draws, the
\* smallest and largest ones and those around the default frequency
AllDraws == Draws \cup {0, 99} \cup
            {DefaultCleanupFrequency - 1, DefaultCleanupFrequency,
             DefaultCleanupFrequency + 1}

\* the condition under which cleanup deletes, for the write with sequence seq
CleanupRuns(seq, draw) ==
  /\ size > 0 /\ cleanupFrequency > 0 /\ seq > size
  /\ cleanupFrequency = 100 \/ draw >= cleanupFrequency

\* the entries of b with a sequence prefix above seq - size
Kept(b, seq) == SelectSeq(b, LAMBDA e : KeySeq(e.key) > seq - size)

\* C24: for the next write (sequence seq) and any draw, cleanup leaves the
\* bucket as it is unless size > 0, cleanupFrequency > 0, seq > size and
\* (cleanupFrequency = 1 or draw >= cleanupFrequency), and then it removes
\* exactly the entries with a prefix <= seq - size; a committing write leaves
\* the bucket that cleanup gives for one of the draws plus the new entry; and
\* with size = 0 or cleanupFrequency = 0 the bucket holds every entry.
C24_CleanupConditionAndRange ==
  /\ [](\A draw \in AllDraws :
          cleanup(bucket, sequence + 1, draw)
            = IF CleanupRuns(sequence + 1, draw)
              THEN Kept(bucket, sequence + 1) ELSE bucket)
  /\ []((size = 0 \/ cleanupFrequency = 0)
          => bucket = LastEntries(Len(committed)))
  /\ [][Len(committed') = Len(committed) + 1 =>
          \E draw \in Draws :
            bucket' = Append(IF CleanupRuns(sequence', draw)
                             THEN Kept(bucket, sequence') ELSE bucket,
                             [key |-> Key(sequence', committed'[Len(committed')].ID),
                              value |-> Marshal(committed'[Len(committed')])])]_vars

\* a write with a sequence above size has had its cleanup delete the oldest
\* entry, and the bucket starts at the first prefix above seq - size
C24_Witness ==
  /\ size > 0 /\ cleanupFrequency > 0
  /\ sequence > size
  /\ bucket # <<>> /\ KeySeq(bucket[1].key) = sequence - size + 1
  /\ Len(bucket) < Len(committed)

\* sequence number of the most recently committed log entry, 0 on an empty log
LogEnd == IF bucket = <<>> THEN 0 ELSE KeySeq(bucket[Len(bucket)].key)

\* C25: whenever AddSubscriber is about to load the replay watermark, lastSeq
\* is the sequence number of the most recently committed log entry (0 only
\* on an empty log), and the watermark a replay works with is never beyond
\* the end of the log.
C25_WatermarkIsLogEnd ==
  \A s \in Subs :
    /\ spc[s] = "load" => lastSeq = LogEnd
    /\ spc[s] \in {"view", "replay"} => toSeq[s] <= LogEnd

====
